---- MODULE Spec2Model ----
(***************************************************************************)
(* Web traffic analytics: the record validator and cleaner                 *)
(* (data_validator.py) and the KPI / dimensional aggregator with the page  *)
(* quality scorer and categorizer (app.py).                                *)
(*                                                                         *)
(* Numeric cells are pandas float/int cells.  A cell is a record           *)
(* [k, n, d]: k = "num" is the rational n/d in lowest terms (d > 0),       *)
(* k = "nan" is a null (NaN), k = "pinf"/"ninf" are the IEEE infinities a  *)
(* division by zero yields, k = "str" is a text cell of an object column.  *)
(***************************************************************************)
EXTENDS Integers, Sequences, FiniteSets, TLC

VARIABLES
    df,          \* DataValidator.df: the loaded table (sequence of rows)
    columns,     \* set(self.df.columns)
    issues,      \* DataValidator.issues
    pc,          \* position of the validator / cleaner control flow
    ran,         \* the validation steps entered so far, in order
    all_passed,  \* local all_passed of run_full_validation
    loaded,      \* the table as it was right after load_data
    output_file, \* the file to_csv writes (NoFile while nothing is written)
    removed,     \* the count clean_data prints as removed duplicates
    first_clean, \* the table returned by the first clean_data call
    file,        \* the file at self.filepath
    returned,    \* what run_full_validation returned ("none" before it returns)
    response,    \* the answer typed at the cleaning prompt ("none": no prompt)
    adf,         \* app.py: the record subset handed to the aggregations
    out,         \* app.py: the value returned by the last aggregation
    op           \* app.py: which aggregation produced out

vars == <<df, columns, issues, pc, ran, all_passed, loaded, output_file,
          removed, first_clean, file, returned, response, adf, out, op>>

valVars == <<df, columns, issues, pc, ran, all_passed, loaded, output_file,
             removed, first_clean, file, returned, response>>
aggVars == <<adf, out, op>>

-----------------------------------------------------------------------------
(* Bounds of the model *)
MaxRows == 3        \* rows of a raw table handed to clean_data
MaxAggRows == 3     \* rows of a record subset handed to the aggregations
MaxValRows == 2     \* rows of a table handed to run_full_validation

-----------------------------------------------------------------------------
(* Float cells: the arithmetic pandas / numpy perform on a column *)

RECURSIVE GCD(_, _)
GCD(a, b) == IF b = 0 THEN a ELSE GCD(b, a % b)

Abs(x) == IF x < 0 THEN -x ELSE x

NaN  == [k |-> "nan",  n |-> 0, d |-> 1]
PInf == [k |-> "pinf", n |-> 0, d |-> 1]
NInf == [k |-> "ninf", n |-> 0, d |-> 1]
\* a text cell of an object column: the text of the number n/d, or (d = 0)
\* text that is no number
Text == [k |-> "str", n |-> 0, d |-> 0]
TextOf(x) == IF x.k = "num" THEN [k |-> "str", n |-> x.n, d |-> x.d] ELSE x

\* n/d in lowest terms with a positive denominator (d # 0)
Rat(n, d) ==
    LET g  == GCD(Abs(n), Abs(d))
        sn == IF d < 0 THEN -n ELSE n
    IN  [k |-> "num", n |-> sn \div g, d |-> Abs(d) \div g]

Num(n) == [k |-> "num", n |-> n, d |-> 1]

IsNaN(x) == x.k = "nan"
IsNum(x) == x.k = "num"
IsStr(x) == x.k = "str"
IsFinite(x) == x.k = "num"

\* sign of a non-NaN cell: -1, 0, 1
Sgn(x) ==
    CASE x.k = "pinf" -> 1
      [] x.k = "ninf" -> -1
      [] OTHER -> IF x.n > 0 THEN 1 ELSE IF x.n < 0 THEN -1 ELSE 0

InfOf(s) == IF s > 0 THEN PInf ELSE NInf

\* IEEE comparisons: every comparison with a NaN is false
Less(a, b) ==
    CASE IsNaN(a) \/ IsNaN(b) -> FALSE
      [] a.k = "ninf" -> b.k # "ninf"
      [] a.k = "pinf" -> FALSE
      [] b.k = "ninf" -> FALSE
      [] b.k = "pinf" -> TRUE
      [] OTHER -> a.n * b.d < b.n * a.d

Leq(a, b) == ~IsNaN(a) /\ ~IsNaN(b) /\ (a = b \/ Less(a, b))
Greater(a, b) == Less(b, a)
Geq(a, b) == Leq(b, a)

Add(a, b) ==
    CASE IsNaN(a) \/ IsNaN(b) -> NaN
      [] ~IsNum(a) /\ ~IsNum(b) -> IF a.k = b.k THEN a ELSE NaN
      [] ~IsNum(a) -> a
      [] ~IsNum(b) -> b
      [] OTHER -> Rat(a.n * b.d + b.n * a.d, a.d * b.d)

Neg(a) ==
    CASE IsNaN(a) -> NaN
      [] a.k = "pinf" -> NInf
      [] a.k = "ninf" -> PInf
      [] OTHER -> Rat(-a.n, a.d)

Sub(a, b) == Add(a, Neg(b))

Mul(a, b) ==
    CASE IsNaN(a) \/ IsNaN(b) -> NaN
      [] ~IsNum(a) \/ ~IsNum(b) ->
            IF Sgn(a) * Sgn(b) = 0 THEN NaN ELSE InfOf(Sgn(a) * Sgn(b))
      [] OTHER -> Rat(a.n * b.n, a.d * b.d)

\* true division of numpy: x/0 is +-inf, 0/0 is NaN, never an exception
Div(a, b) ==
    CASE IsNaN(a) \/ IsNaN(b) -> NaN
      [] ~IsNum(a) /\ ~IsNum(b) -> NaN
      [] ~IsNum(b) -> Num(0)
      [] Sgn(b) = 0 ->
            IF Sgn(a) = 0 THEN NaN ELSE InfOf(Sgn(a))
      [] ~IsNum(a) -> InfOf(Sgn(a) * Sgn(b))
      [] OTHER -> Rat(a.n * b.d, a.d * b.n)

-----------------------------------------------------------------------------
(* Column reductions (skipna = True, the pandas default) *)

RECURSIVE SumCells(_)
SumCells(s) == IF s = <<>> THEN Num(0) ELSE Add(Head(s), SumCells(Tail(s)))

NotNull(s) == SelectSeq(s, LAMBDA x : ~IsNaN(x))

\* Series.sum(): nulls are skipped, the sum of nothing is 0
ColSum(s) == SumCells(NotNull(s))

\* Series.mean(): nulls are skipped, the mean of nothing is NaN
ColMean(s) ==
    LET v == NotNull(s)
    IN  IF v = <<>> THEN NaN ELSE Div(SumCells(v), Num(Len(v)))

RECURSIVE MaxCells(_)
MaxCells(s) ==
    IF Len(s) = 1 THEN Head(s)
    ELSE LET m == MaxCells(Tail(s))
         IN  IF Less(m, Head(s)) THEN Head(s) ELSE m

\* Series.max(): nulls are skipped, the max of nothing is NaN
ColMax(s) ==
    LET v == NotNull(s)
    IN  IF v = <<>> THEN NaN ELSE MaxCells(v)

\* the cells of s in ascending order (s holds no NaN)
RECURSIVE SortCells(_)
SortCells(s) ==
    IF s = <<>> THEN <<>>
    ELSE LET i == CHOOSE i \in 1..Len(s) :
                     \A j \in 1..Len(s) : ~Less(s[j], s[i])
             rest == [j \in 1..(Len(s) - 1) |-> IF j < i THEN s[j] ELSE s[j + 1]]
         IN  <<s[i]>> \o SortCells(rest)

\* Series.median(): nulls are skipped; the middle cell, or the mean of the
\* two middle cells
ColMedian(s) ==
    LET v == SortCells(NotNull(s))
        n == Len(v)
    IN  IF n = 0 THEN NaN
        ELSE IF n % 2 = 1 THEN v[(n + 1) \div 2]
        ELSE Div(Add(v[n \div 2], v[n \div 2 + 1]), Num(2))

-----------------------------------------------------------------------------
(* Rows of the table and the values a raw file can hold *)

required_columns == {"date", "page", "device", "country", "sessions", "users",
                     "bounce_rate", "conversions", "avg_session_duration"}

numeric_cols == <<"sessions", "users", "conversions", "bounce_rate",
                  "avg_session_duration">>

\* a date cell: the text read from the file (k = "raw"; v tells what the text
\* is: a well-formed past date, a well-formed future date, or text that is
\* not DD-MM-YYYY HH:MM), a parsed Timestamp (k = "ts"), or the text to_csv
\* writes for a Timestamp, YYYY-MM-DD HH:MM:SS (k = "iso")
RawDate(v) == [k |-> "raw", v |-> v]

Column(t, c) == [i \in 1..Len(t) |-> t[i][c]]

BaseRow ==
    [date |-> RawDate("past"), page |-> "Home", device |-> "mobile",
     country |-> "US", sessions |-> Num(2), users |-> Num(1),
     bounce_rate |-> Rat(1, 2), conversions |-> Num(1),
     avg_session_duration |-> Num(1)]

OtherRow ==
    [date |-> RawDate("past"), page |-> "Blog", device |-> "desktop",
     country |-> "UK", sessions |-> Num(1), users |-> Num(2),
     bounce_rate |-> Num(1), conversions |-> Num(0),
     avg_session_duration |-> Num(0)]

NullRow ==
    [BaseRow EXCEPT !.sessions = NaN, !.users = NaN, !.bounce_rate = NaN,
                    !.conversions = NaN, !.avg_session_duration = NaN]

\* the defects of a raw numeric cell: null, zero, negative, out of range
Defects ==
    { <<"sessions", NaN>>, <<"sessions", Num(0)>>, <<"sessions", Num(-1)>>,
      <<"users", NaN>>,
      <<"conversions", NaN>>, <<"conversions", Num(3)>>,
      <<"conversions", Num(4)>>,
      <<"bounce_rate", NaN>>, <<"bounce_rate", Rat(-1, 2)>>,
      <<"bounce_rate", Num(2)>>, <<"bounce_rate", Num(3)>>,
      <<"avg_session_duration", NaN>> }

RawRows ==
    {BaseRow, OtherRow, NullRow} \cup
    { [BaseRow EXCEPT ![fv[1]] = fv[2]] : fv \in Defects }

TablesOver(rows, maxLen) == UNION { [1..n -> rows] : n \in 0..maxLen }

-----------------------------------------------------------------------------
(* DataValidator.clean_data *)

\* DataFrame.drop_duplicates(): the first row of every group of equal rows
\* is kept, in the original order (nulls compare equal to nulls)
\* drop_duplicates(keep='last'): the last row of every group is kept
RECURSIVE KeepLastFrom(_, _)
KeepLastFrom(t, n) ==
    IF n > Len(t) THEN <<>>
    ELSE IF \E j \in (n + 1)..Len(t) : t[j] = t[n]
         THEN KeepLastFrom(t, n + 1)
         ELSE <<t[n]>> \o KeepLastFrom(t, n + 1)

drop_duplicates_keep_last(t) == KeepLastFrom(t, 1)

RECURSIVE DropDupUpTo(_, _)
DropDupUpTo(t, n) ==
    IF n = 0 THEN <<>>
    ELSE IF \E j \in 1..(n - 1) : t[j] = t[n]
         THEN DropDupUpTo(t, n - 1)
         ELSE Append(DropDupUpTo(t, n - 1), t[n])

drop_duplicates(t) == DropDupUpTo(t, Len(t))

\* self.df[self.df['sessions'] > 0]
positive_sessions(t) == SelectSeq(t, LAMBDA r : Greater(r.sessions, Num(0)))

clip_upper_missing(x, lo, hi) == IF Less(x, lo) THEN lo ELSE x

\* Series.clip(lo, hi) on one cell: a null stays null
clip(x, lo, hi) ==
    IF Less(x, lo) THEN lo ELSE IF Greater(x, hi) THEN hi ELSE x

\* DataFrame.min(axis=1) on one row of two cells: nulls are skipped
row_min(a, b) ==
    IF IsNaN(a) THEN b
    ELSE IF IsNaN(b) THEN a
    ELSE IF Less(b, a) THEN b ELSE a

\* self.df[col].fillna(0, inplace=True) on one cell (the in-place fill acts
\* on the column of self.df, as in pandas without copy-on-write)
fillna(x) == IF IsNaN(x) THEN Num(0) ELSE x

clip_bounce(t) ==
    [i \in 1..Len(t) |->
        [t[i] EXCEPT !.bounce_rate = clip(@, Num(0), Num(1))]]

cap_conversions(t) ==
    [i \in 1..Len(t) |->
        [t[i] EXCEPT !.conversions = row_min(@, t[i].sessions)]]

fill_missing(t) ==
    [i \in 1..Len(t) |->
        [t[i] EXCEPT !.sessions = fillna(@), !.users = fillna(@),
                     !.conversions = fillna(@), !.bounce_rate = fillna(@),
                     !.avg_session_duration = fillna(@)]]

\* the table clean_data leaves in self.df and returns
clean_data(t) ==
    fill_missing(cap_conversions(clip_bounce(
        positive_sessions(drop_duplicates(t)))))

\* to_csv(output_file, index=False): a Timestamp is written as
\* YYYY-MM-DD HH:MM:SS, text is written as it is
format_date(c) == IF c.k = "ts" THEN [k |-> "iso", v |-> c.v] ELSE c

to_csv(t) ==
    [written |-> TRUE,
     rows |-> [i \in 1..Len(t) |-> [t[i] EXCEPT !.date = format_date(@)]]]

\* the output file before anything is written to it
NoFile == [written |-> FALSE, rows |-> <<>>]

\* one call of clean_data on the loaded table
CleanData ==
    /\ pc = "loaded"
    /\ removed' = Len(df) - Len(drop_duplicates(df))
    /\ df' = clean_data(df)
    /\ output_file' = to_csv(df')
    /\ first_clean' = df'
    /\ pc' = "cleaned"
    /\ UNCHANGED <<columns, issues, ran, all_passed, loaded, file, returned,
                   response>>
    /\ UNCHANGED aggVars

\* clean_data called again on the table it returned
CleanAgain ==
    /\ pc = "cleaned"
    /\ removed' = Len(df) - Len(drop_duplicates(df))
    /\ df' = clean_data(df)
    /\ output_file' = to_csv(df')
    /\ pc' = "recleaned"
    /\ UNCHANGED <<columns, issues, ran, all_passed, loaded, first_clean,
                   file, returned, response>>
    /\ UNCHANGED aggVars

AggIdle == adf = <<>> /\ out = "none" /\ op = "none"

InitClean ==
    /\ df \in TablesOver(RawRows, MaxRows)
    /\ loaded = df
    /\ columns = required_columns
    /\ issues = <<>>
    /\ pc = "loaded"
    /\ ran = <<>>
    /\ all_passed = TRUE
    /\ output_file = NoFile
    /\ removed = 0
    /\ first_clean = <<>>
    /\ file = "none"
    /\ returned = "none"
    /\ response = "none"
    /\ AggIdle

NextClean == CleanData \/ CleanAgain

SpecClean == InitClean /\ [][NextClean]_vars

-----------------------------------------------------------------------------
(* C1: every row of the table returned by clean_data has                   *)
(* 0 <= bounce_rate <= 1, conversions <= sessions and sessions > 0,        *)
(* whatever nulls, zeros, negative or out-of-range values the raw table    *)
(* held.                                                                   *)
CleanedRowsValid ==
    pc \in {"cleaned", "recleaned"} =>
        \A i \in 1..Len(df) :
            /\ Leq(Num(0), df[i].bounce_rate)
            /\ Leq(df[i].bounce_rate, Num(1))
            /\ Leq(df[i].conversions, df[i].sessions)
            /\ Greater(df[i].sessions, Num(0))

\* a cleaned table of three surviving rows whose raw rows held a
\* bounce_rate above 1, a null bounce_rate and conversions above sessions
CleanedRowsWitness ==
    /\ pc = "cleaned"
    /\ Len(df) = 3
    /\ \E i \in 1..Len(loaded) : Greater(loaded[i].bounce_rate, Num(1))
    /\ \E i \in 1..Len(loaded) :
          IsNaN(loaded[i].bounce_rate) /\ Greater(loaded[i].sessions, Num(0))
    /\ \E i \in 1..Len(loaded) :
          Greater(loaded[i].conversions, loaded[i].sessions)

(* C2: cleaning is idempotent: clean_data applied to the table clean_data  *)
(* returned gives that same table and removes no further row.              *)
CleanIdempotent ==
    pc = "recleaned" => (df = first_clean /\ removed = 0)

-----------------------------------------------------------------------------
(* app.py: the record subsets handed to the aggregations *)

\* the grouping keys a record carries (date_only, hour and day_of_week are
\* derived from date by load_data)
Dims ==
    { [page |-> "Home", device |-> "mobile", country |-> "US",
       date_only |-> 1, hour |-> 9, day_of_week |-> "Monday"],
      [page |-> "Blog", device |-> "desktop", country |-> "US",
       date_only |-> 1, hour |-> 10, day_of_week |-> "Monday"],
      [page |-> "Checkout", device |-> "mobile", country |-> "UK",
       date_only |-> 2, hour |-> 9, day_of_week |-> "Tuesday"] }

\* the metric cells of a record of the (uncleaned) data file
Metrics ==
    { [sessions |-> Num(2), users |-> Num(1), conversions |-> Num(1),
       bounce_rate |-> Rat(1, 2), avg_session_duration |-> Num(0)],
      [sessions |-> Num(0), users |-> Num(0), conversions |-> Num(0),
       bounce_rate |-> Num(0), avg_session_duration |-> Num(0)],
      [sessions |-> Num(50), users |-> Num(40), conversions |-> Num(5),
       bounce_rate |-> Rat(1, 4), avg_session_duration |-> Num(2)],
      [sessions |-> Num(4), users |-> NaN, conversions |-> Num(1),
       bounce_rate |-> Num(1), avg_session_duration |-> Num(1)] }

AggRows ==
    { [page |-> g.page, device |-> g.device, country |-> g.country,
       date_only |-> g.date_only, hour |-> g.hour,
       day_of_week |-> g.day_of_week,
       sessions |-> m.sessions, users |-> m.users,
       conversions |-> m.conversions, bounce_rate |-> m.bounce_rate,
       avg_session_duration |-> m.avg_session_duration] :
      g \in Dims, m \in Metrics }

\* the ascending order groupby gives the keys of each dimension; day_of_week
\* ends in the order of day_order (sort_values on the Categorical)
day_order == <<"Monday", "Tuesday", "Wednesday", "Thursday", "Friday",
               "Saturday", "Sunday">>

KeyOrder(dim) ==
    CASE dim = "page" -> <<"Blog", "Checkout", "Home">>
      [] dim = "device" -> <<"desktop", "mobile">>
      [] dim = "country" -> <<"UK", "US">>
      [] dim = "date_only" -> <<1, 2>>
      [] dim = "hour" -> <<9, 10>>
      [] dim = "day_of_week" -> day_order

\* df.groupby(dim): one group per key present, in ascending key order
GroupKeys(t, dim) ==
    SelectSeq(KeyOrder(dim), LAMBDA k : \E i \in 1..Len(t) : t[i][dim] = k)

Group(t, dim, k) == SelectSeq(t, LAMBDA r : r[dim] = k)

\* conversions / sessions * 100 on one aggregate row
rate_unguarded(conversions, sessions) == Mul(Div(conversions, sessions), Num(100))

-----------------------------------------------------------------------------
(* calculate_kpis *)

kpi_rate_no_guard(total_conversions, total_sessions) ==
    Mul(Div(total_conversions, total_sessions), Num(100))

\* (total_conversions / total_sessions * 100) if total_sessions > 0 else 0
kpi_rate(total_conversions, total_sessions) ==
    IF Greater(total_sessions, Num(0))
    THEN Mul(Div(total_conversions, total_sessions), Num(100))
    ELSE Num(0)

calculate_kpis(t) ==
    LET total_sessions == ColSum(Column(t, "sessions"))
        total_users == ColSum(Column(t, "users"))
        total_conversions == ColSum(Column(t, "conversions"))
    IN  [total_sessions |-> total_sessions,
         total_users |-> total_users,
         total_conversions |-> total_conversions,
         avg_bounce_rate |-> ColMean(Column(t, "bounce_rate")),
         avg_session_duration |-> ColMean(Column(t, "avg_session_duration")),
         conversion_rate |-> kpi_rate(total_conversions, total_sessions)]

-----------------------------------------------------------------------------
(* analyze_page_performance *)

Categories == {"Star Performers", "High Traffic - Low Conversion",
               "Hidden Gems", "Needs Attention"}

categorize_page_explicit_else(row, median_sessions, median_conversions) ==
    IF Geq(row.sessions, median_sessions)
       /\ Geq(row.conversion_rate, median_conversions)
    THEN "Star Performers"
    ELSE IF Geq(row.sessions, median_sessions)
            /\ Less(row.conversion_rate, median_conversions)
    THEN "High Traffic - Low Conversion"
    ELSE IF Less(row.sessions, median_sessions)
            /\ Geq(row.conversion_rate, median_conversions)
    THEN "Hidden Gems"
    ELSE IF Less(row.sessions, median_sessions)
            /\ Less(row.conversion_rate, median_conversions)
    THEN "Needs Attention"
    ELSE "None"

categorize_page(row, median_sessions, median_conversions) ==
    IF Geq(row.sessions, median_sessions)
       /\ Geq(row.conversion_rate, median_conversions)
    THEN "Star Performers"
    ELSE IF Geq(row.sessions, median_sessions)
            /\ Less(row.conversion_rate, median_conversions)
    THEN "High Traffic - Low Conversion"
    ELSE IF Less(row.sessions, median_sessions)
            /\ Geq(row.conversion_rate, median_conversions)
    THEN "Hidden Gems"
    ELSE "Needs Attention"

\* ((1 - bounce_rate) * 0.3 + (conversion_rate / 100) * 0.4
\*  + (avg_session_duration / max avg_session_duration) * 0.3) * 100
quality_score(bounce_rate, conversion_rate, duration, max_duration) ==
    Mul(Add(Add(Mul(Sub(Num(1), bounce_rate), Rat(3, 10)),
                Mul(Div(conversion_rate, Num(100)), Rat(4, 10))),
            Mul(Div(duration, max_duration), Rat(3, 10))),
        Num(100))

\* df.groupby('page').agg(...).reset_index()
page_groups(t) ==
    LET ks == GroupKeys(t, "page")
    IN  [i \in 1..Len(ks) |->
            LET g == Group(t, "page", ks[i])
            IN  [page |-> ks[i],
                 sessions |-> ColSum(Column(g, "sessions")),
                 conversions |-> ColSum(Column(g, "conversions")),
                 bounce_rate |-> ColMean(Column(g, "bounce_rate")),
                 avg_session_duration |->
                     ColMean(Column(g, "avg_session_duration"))]]

analyze_page_performance(t) ==
    LET grouped == page_groups(t)
        rated == [i \in 1..Len(grouped) |->
                    [page |-> grouped[i].page,
                     sessions |-> grouped[i].sessions,
                     conversions |-> grouped[i].conversions,
                     bounce_rate |-> grouped[i].bounce_rate,
                     avg_session_duration |-> grouped[i].avg_session_duration,
                     conversion_rate |->
                        rate_unguarded(grouped[i].conversions,
                                       grouped[i].sessions)]]
        max_duration == ColMax(Column(rated, "avg_session_duration"))
        median_sessions == ColMedian(Column(rated, "sessions"))
        median_conversions == ColMedian(Column(rated, "conversion_rate"))
    IN  [i \in 1..Len(rated) |->
            [page |-> rated[i].page,
             sessions |-> rated[i].sessions,
             conversions |-> rated[i].conversions,
             bounce_rate |-> rated[i].bounce_rate,
             avg_session_duration |-> rated[i].avg_session_duration,
             conversion_rate |-> rated[i].conversion_rate,
             quality_score |->
                quality_score(rated[i].bounce_rate, rated[i].conversion_rate,
                              rated[i].avg_session_duration, max_duration),
             category |->
                categorize_page(rated[i], median_sessions,
                                median_conversions)]]

-----------------------------------------------------------------------------
(* The other dimensional aggregations *)

\* groupby(dim).agg({sessions: sum, users: sum, conversions: sum,
\* bounce_rate: mean, avg_session_duration: mean}) and the conversion_rate
\* column: analyze_device_performance and analyze_country_performance
with_users(t, dim) ==
    LET ks == GroupKeys(t, dim)
    IN  [i \in 1..Len(ks) |->
            LET g == Group(t, dim, ks[i])
                sessions == ColSum(Column(g, "sessions"))
                conversions == ColSum(Column(g, "conversions"))
            IN  [key |-> ks[i],
                 sessions |-> sessions,
                 users |-> ColSum(Column(g, "users")),
                 conversions |-> conversions,
                 bounce_rate |-> ColMean(Column(g, "bounce_rate")),
                 avg_session_duration |->
                     ColMean(Column(g, "avg_session_duration")),
                 conversion_rate |-> rate_unguarded(conversions, sessions)]]

\* groupby(dim).agg({sessions: sum, conversions: sum, bounce_rate: mean})
\* and the conversion_rate column: analyze_time_trends, hourly_perf, dow_stats
sessions_conversions(t, dim) ==
    LET ks == GroupKeys(t, dim)
    IN  [i \in 1..Len(ks) |->
            LET g == Group(t, dim, ks[i])
                sessions == ColSum(Column(g, "sessions"))
                conversions == ColSum(Column(g, "conversions"))
            IN  [key |-> ks[i],
                 sessions |-> sessions,
                 conversions |-> conversions,
                 bounce_rate |-> ColMean(Column(g, "bounce_rate")),
                 conversion_rate |-> rate_unguarded(conversions, sessions)]]

analyze_device_performance(t) == with_users(t, "device")
analyze_country_performance(t) == with_users(t, "country")
analyze_time_trends(t) == sessions_conversions(t, "date_only")
hourly_perf(t) == sessions_conversions(t, "hour")
dow_stats(t) == sessions_conversions(t, "day_of_week")

-----------------------------------------------------------------------------
(* The aggregations as operations on a record subset *)

Aggregate(name, result) ==
    /\ op = "none"
    /\ op' = name
    /\ out' = result
    /\ UNCHANGED adf
    /\ UNCHANGED valVars

CalculateKpis == Aggregate("kpis", calculate_kpis(adf))
AnalyzePagePerformance == Aggregate("page", analyze_page_performance(adf))
AnalyzeDevicePerformance == Aggregate("device", analyze_device_performance(adf))
AnalyzeCountryPerformance ==
    Aggregate("country", analyze_country_performance(adf))
AnalyzeTimeTrends == Aggregate("daily", analyze_time_trends(adf))
HourlyPerf == Aggregate("hourly", hourly_perf(adf))
DowStats == Aggregate("dow", dow_stats(adf))

\* main: if filtered_df.empty: st.warning(...); return
EmptyWarning ==
    /\ adf = <<>>
    /\ Aggregate("empty", "No data available for the selected filters")

ValIdle ==
    /\ df = <<>>
    /\ loaded = <<>>
    /\ columns = required_columns
    /\ issues = <<>>
    /\ pc = "idle"
    /\ ran = <<>>
    /\ all_passed = TRUE
    /\ output_file = NoFile
    /\ removed = 0
    /\ first_clean = <<>>
    /\ file = "none"
    /\ returned = "none"
    /\ response = "none"

InitAgg ==
    /\ adf \in TablesOver(AggRows, MaxAggRows)
    /\ out = "none"
    /\ op = "none"
    /\ ValIdle

NextAgg ==
    \/ CalculateKpis
    \/ AnalyzePagePerformance
    \/ AnalyzeDevicePerformance
    \/ AnalyzeCountryPerformance
    \/ AnalyzeTimeTrends
    \/ HourlyPerf
    \/ DowStats
    \/ EmptyWarning

SpecAgg == InitAgg /\ [][NextAgg]_vars

-----------------------------------------------------------------------------
(* C3: in every aggregate row of every aggregation (overall KPI, per page, *)
(* device, country, calendar day, hour, day of week) conversion_rate is    *)
(* exactly 0 whenever the summed sessions is 0, never NaN or infinite.     *)
AggregateRows ==
    IF op \in {"none", "empty"} THEN <<>>
    ELSE IF op = "kpis"
    THEN <<[sessions |-> out.total_sessions,
            conversion_rate |-> out.conversion_rate]>>
    ELSE [i \in 1..Len(out) |->
            [sessions |-> out[i].sessions,
             conversion_rate |-> out[i].conversion_rate]]

ConversionRateZeroWithoutSessions ==
    \A i \in 1..Len(AggregateRows) :
        AggregateRows[i].sessions = Num(0)
            => AggregateRows[i].conversion_rate = Num(0)

(* C4: calculate_kpis returns the column sums as total_sessions,           *)
(* total_users and total_conversions, and conversion_rate =                *)
(* total_conversions / total_sessions * 100 when total_sessions > 0,       *)
(* else 0.                                                                 *)
RECURSIVE TotalUpTo(_, _, _)
TotalUpTo(t, c, n) ==
    IF n = 0 THEN 0
    ELSE TotalUpTo(t, c, n - 1) + (IF IsNaN(t[n][c]) THEN 0 ELSE t[n][c].n)

KpisCorrect ==
    op = "kpis" =>
        /\ out.total_sessions = Num(TotalUpTo(adf, "sessions", Len(adf)))
        /\ out.total_users = Num(TotalUpTo(adf, "users", Len(adf)))
        /\ out.total_conversions =
              Num(TotalUpTo(adf, "conversions", Len(adf)))
        /\ IF TotalUpTo(adf, "sessions", Len(adf)) > 0
           THEN /\ IsFinite(out.conversion_rate)
                /\ out.conversion_rate.n
                      * TotalUpTo(adf, "sessions", Len(adf))
                   = 100 * TotalUpTo(adf, "conversions", Len(adf))
                      * out.conversion_rate.d
           ELSE out.conversion_rate = Num(0)

\* the example of the specification: records (sessions=50, conversions=5)
\* and (sessions=0, conversions=0) give 50, 5 and a rate of 10
KpisWitness ==
    /\ op = "kpis"
    /\ Len(adf) = 2
    /\ adf[1].sessions = Num(50) /\ adf[1].conversions = Num(5)
    /\ adf[2].sessions = Num(0) /\ adf[2].conversions = Num(0)
    /\ out.total_sessions = Num(50)
    /\ out.total_conversions = Num(5)
    /\ out.conversion_rate = Num(10)

(* C5: for a non-empty subset analyze_page_performance returns one row per *)
(* distinct page, and the four category sets are pairwise disjoint with    *)
(* the full page set as their union.                                       *)
PagesOf(t) == { t[i].page : i \in 1..Len(t) }

CategorySet(c) == { out[i].page : i \in { j \in 1..Len(out) : out[j].category = c } }

CategoriesPartitionPages ==
    (op = "page" /\ adf # <<>>) =>
        /\ \A p \in PagesOf(adf) :
              Cardinality({ i \in 1..Len(out) : out[i].page = p }) = 1
        /\ Len(out) = Cardinality(PagesOf(adf))
        /\ UNION { CategorySet(c) : c \in Categories } = PagesOf(adf)
        /\ \A c1, c2 \in Categories :
              c1 # c2 => CategorySet(c1) \cap CategorySet(c2) = {}

\* three pages, one of them with several records, spread over more than one
\* category
CategoriesWitness ==
    /\ op = "page"
    /\ Len(adf) = 3
    /\ Len(out) = 2
    /\ Cardinality({ out[i].category : i \in 1..Len(out) }) = 2

(* C6: the category of every page aggregate is the one of the decision     *)
(* table on sessions >= medianSessions and conversion_rate >=              *)
(* medianConversionRate (medians over the page aggregates); a page with    *)
(* sessions >= medianSessions is never Hidden Gems or Needs Attention.     *)
DecisionTable(highSessions, highRate) ==
    IF highSessions
    THEN IF highRate THEN "Star Performers"
         ELSE "High Traffic - Low Conversion"
    ELSE IF highRate THEN "Hidden Gems" ELSE "Needs Attention"

CategoryFollowsDecisionTable ==
    op = "page" =>
        LET medianSessions == ColMedian(Column(out, "sessions"))
            medianConversionRate == ColMedian(Column(out, "conversion_rate"))
        IN  \A i \in 1..Len(out) :
               /\ out[i].category =
                     DecisionTable(Geq(out[i].sessions, medianSessions),
                                   Geq(out[i].conversion_rate,
                                       medianConversionRate))
               /\ Geq(out[i].sessions, medianSessions) =>
                     out[i].category \notin {"Hidden Gems", "Needs Attention"}

(* C7: every quality_score equals 100 * (0.3*(1 - bounce_rate) +           *)
(* 0.4*(conversion_rate/100) + 0.3*(avg_session_duration / max             *)
(* avg_session_duration of the page set)) and lies in 0..100, also when    *)
(* the maximum avg_session_duration is 0.                                  *)
QualityScoreInRange ==
    op = "page" =>
        LET maxDuration == ColMax(Column(out, "avg_session_duration"))
        IN  \A i \in 1..Len(out) :
               /\ out[i].quality_score =
                     Mul(Num(100),
                         Add(Add(Mul(Rat(3, 10), Sub(Num(1), out[i].bounce_rate)),
                                 Mul(Rat(4, 10),
                                     Div(out[i].conversion_rate, Num(100)))),
                             Mul(Rat(3, 10),
                                 Div(out[i].avg_session_duration, maxDuration))))
               /\ Leq(Num(0), out[i].quality_score)
               /\ Leq(out[i].quality_score, Num(100))

-----------------------------------------------------------------------------
(* DataValidator: the files run_full_validation is given *)

FutureRow == [BaseRow EXCEPT !.date = RawDate("future")]
BadDateRow == [BaseRow EXCEPT !.date = RawDate("bad")]

\* rows with text that is no number in one of the numeric columns
TextRows ==
    { [BaseRow EXCEPT ![numeric_cols[i]] = Text] : i \in 1..Len(numeric_cols) }

\* a record whose only defect is conversions above sessions
OverCapRow ==
    [BaseRow EXCEPT !.sessions = Num(100), !.users = Num(80),
                    !.conversions = Num(120)]

ValRows == RawRows \cup {FutureRow, BadDateRow, OverCapRow} \cup TextRows

NonEmptyTablesOver(rows, maxLen) == UNION { [1..n -> rows] : n \in 1..maxLen }

\* a readable file with all required columns and any rows; a readable file
\* that lacks one required column; a file that cannot be read
Files ==
    { [status |-> "ok", cols |-> required_columns, rows |-> t] :
        t \in NonEmptyTablesOver(ValRows, MaxValRows) }
    \cup
    { [status |-> "ok", cols |-> required_columns \ {c}, rows |-> t] :
        c \in required_columns,
        t \in NonEmptyTablesOver({BaseRow, OtherRow}, MaxValRows) }
    \cup
    { [status |-> st, cols |-> {}, rows |-> <<>>] : st \in {"missing", "empty"} }

NumericSet == { numeric_cols[i] : i \in 1..Len(numeric_cols) }

\* the cell of a column the file does not have
AbsentCell(c) ==
    IF c \in NumericSet THEN [k |-> "absent", n |-> 0, d |-> 1]
    ELSE IF c = "date" THEN [k |-> "absent", v |-> "-"]
    ELSE "absent"

\* pd.read_csv: a numeric column that holds text that is no number is read
\* as an object column, all its cells text (nulls stay NaN); the other cells
\* are read as they are; date, page, device and country are text
read_csv(f) ==
    LET objectCols == { c \in NumericSet \cap f.cols :
                           \E i \in 1..Len(f.rows) : IsStr(f.rows[i][c]) }
    IN  [i \in 1..Len(f.rows) |->
            [c \in required_columns |->
                IF c \notin f.cols THEN AbsentCell(c)
                ELSE IF c \in objectCols THEN TextOf(f.rows[i][c])
                ELSE f.rows[i][c]]]

Issue(kind, col, count) == [kind |-> kind, col |-> col, count |-> count]

Count(t, P(_)) == Cardinality({ i \in 1..Len(t) : P(t[i]) })

\* pd.api.types.is_numeric_dtype(self.df[col])
is_numeric_dtype(t, col) == \A i \in 1..Len(t) : ~IsStr(t[i][col])

-----------------------------------------------------------------------------
(* The validation steps.  Each gives the issues it appends, what it        *)
(* returns (ok) and whether it ends in an uncaught exception (raised).     *)

validate_columns(cols) ==
    LET missing_columns == required_columns \ cols
    IN  IF missing_columns # {}
        THEN [issues |-> <<Issue("Missing columns", "-",
                                 Cardinality(missing_columns))>>,
              ok |-> FALSE, raised |-> FALSE]
        ELSE [issues |-> <<>>, ok |-> TRUE, raised |-> FALSE]

\* pd.to_datetime(..., format='%d-%m-%Y %H:%M') on one cell of text
to_datetime(c) == [k |-> "ts", v |-> c.v]

\* the KeyError of a missing date column and the ValueError of text that
\* does not parse are caught by the except clause
dates_parse(t, cols) ==
    "date" \in cols /\ \A i \in 1..Len(t) : t[i].date.v # "bad"

parsed_dates(t) == [i \in 1..Len(t) |-> [t[i] EXCEPT !.date = to_datetime(@)]]

validate_dates(t, cols) ==
    IF ~dates_parse(t, cols)
    THEN [df |-> t, issues |-> <<Issue("Date parsing error", "date", 0)>>,
          ok |-> FALSE, raised |-> FALSE]
    ELSE LET future_dates == Count(t, LAMBDA r : r.date.v = "future")
         IN  [df |-> parsed_dates(t),
              issues |-> IF future_dates > 0
                         THEN <<Issue("future dates found", "date",
                                      future_dates)>>
                         ELSE <<>>,
              ok |-> TRUE, raised |-> FALSE]

\* the range and missing-value checks of one numeric column
column_checks(t, col) ==
    LET negative_count == Count(t, LAMBDA r : Less(r[col], Num(0)))
        invalid_bounce ==
            Count(t, LAMBDA r : Less(r[col], Num(0)) \/ Greater(r[col], Num(1)))
        missing_count == Count(t, LAMBDA r : IsNaN(r[col]))
    IN  (IF col # "bounce_rate" /\ negative_count > 0
         THEN <<Issue("negative values", col, negative_count)>> ELSE <<>>)
        \o
        (IF col = "bounce_rate" /\ invalid_bounce > 0
         THEN <<Issue("invalid bounce_rate values", col, invalid_bounce)>>
         ELSE <<>>)
        \o
        (IF missing_count > 0
         THEN <<Issue("missing values", col, missing_count)>> ELSE <<>>)

\* the loop with its continue taken as a break
RECURSIVE numeric_loop_break(_, _, _, _)
numeric_loop_break(t, cols, i, acc) ==
    IF i > Len(numeric_cols) THEN acc
    ELSE LET col == numeric_cols[i]
         IN  IF col \notin cols THEN [acc EXCEPT !.raised = TRUE]
             ELSE IF ~is_numeric_dtype(t, col)
             THEN [issues |-> Append(acc.issues, Issue("not numeric", col, 0)),
                   ok |-> FALSE, raised |-> FALSE]
             ELSE numeric_loop_break(t, cols, i + 1,
                     [acc EXCEPT !.issues = @ \o column_checks(t, col)])

\* the for loop over numeric_cols from column i on; self.df[col] of a
\* missing column is an uncaught KeyError
RECURSIVE numeric_loop(_, _, _, _)
numeric_loop(t, cols, i, acc) ==
    IF i > Len(numeric_cols) THEN acc
    ELSE LET col == numeric_cols[i]
         IN  IF col \notin cols THEN [acc EXCEPT !.raised = TRUE]
             ELSE IF ~is_numeric_dtype(t, col)
             THEN numeric_loop(t, cols, i + 1,
                     [issues |-> Append(acc.issues, Issue("not numeric", col, 0)),
                      ok |-> FALSE, raised |-> FALSE])
             ELSE numeric_loop(t, cols, i + 1,
                     [acc EXCEPT !.issues = @ \o column_checks(t, col)])

validate_numeric_columns(t, cols) ==
    numeric_loop(t, cols, 1, [issues |-> <<>>, ok |-> TRUE, raised |-> FALSE])

\* the categorical summary taken as never reading a missing column
validate_categorical_columns_no_read(t, cols) ==
    [issues |-> <<>>, ok |-> TRUE, raised |-> FALSE]

\* self.df[col] of a missing page, device or country is an uncaught KeyError
validate_categorical_columns(t, cols) ==
    [issues |-> <<>>, ok |-> TRUE,
     raised |-> ~({"page", "device", "country"} \subseteq cols)]

\* a < b with a null taken as the lowest value
cell_less_null_low(a, b) == IsNaN(a) \/ Less(a, b)

\* a < b on two cells: two texts compare as text (the texts of the model are
\* one-digit integers, "-1" and letters, ordered as their numbers with the
\* letters last); a NaN compares false
cell_less(a, b) ==
    IF IsStr(a) /\ IsStr(b)
    THEN IF a.d = 0 THEN FALSE
         ELSE IF b.d = 0 THEN TRUE
         ELSE a.n * b.d < b.n * a.d
    ELSE Less(a, b)

\* comparing a text cell with a number or a NaN is a TypeError
compare_raises(t, a, b) == \E i \in 1..Len(t) : IsStr(t[i][a]) # IsStr(t[i][b])

check_data_quality(t, cols) ==
    LET invalid_sessions == Count(t, LAMBDA r : cell_less(r.sessions, r.users))
        invalid_conversions ==
            Count(t, LAMBDA r : cell_less(r.sessions, r.conversions))
        zero_sessions == Count(t, LAMBDA r : r.sessions = Num(0))
        first == IF invalid_sessions > 0
                 THEN <<Issue("sessions < users", "sessions", invalid_sessions)>>
                 ELSE <<>>
        second == IF invalid_conversions > 0
                  THEN <<Issue("conversions > sessions", "conversions",
                               invalid_conversions)>>
                  ELSE <<>>
        third == IF zero_sessions > 0
                 THEN <<Issue("zero sessions", "sessions", zero_sessions)>>
                 ELSE <<>>
    IN  IF ~({"sessions", "users"} \subseteq cols)
           \/ compare_raises(t, "sessions", "users")
        THEN [issues |-> <<>>, ok |-> FALSE, raised |-> TRUE]
        ELSE IF "conversions" \notin cols
                \/ compare_raises(t, "conversions", "sessions")
        THEN [issues |-> first, ok |-> FALSE, raised |-> TRUE]
        ELSE [issues |-> first \o second \o third, ok |-> TRUE,
              raised |-> FALSE]

\* the stats dict: a missing column is a KeyError; the mean of a text column
\* and the division of the sums of text columns are TypeErrors
generate_summary_stats(t, cols) ==
    [issues |-> <<>>, ok |-> TRUE,
     raised |->
        \/ ~(({"date"} \cup NumericSet) \subseteq cols)
        \/ \E c \in {"sessions", "conversions", "bounce_rate",
                     "avg_session_duration"} : ~is_numeric_dtype(t, c)]

-----------------------------------------------------------------------------
(* run_full_validation *)

\* the answers typed at the prompt
Answers == {"y", "Y", "n", "yes", ""}

\* an answer compared as it was typed
lower_as_typed(a) == a

\* str.lower() on an answer
lower(a) == IF a = "Y" THEN "y" ELSE a

Bool(b) == IF b THEN "True" ELSE "False"

\* load_data with its except clauses taken as succeeding
load_data_no_except(f) == TRUE

\* what load_data returns: False when read_csv raises FileNotFoundError or
\* another exception (an empty file is an EmptyDataError)
load_data(f) == f.status = "ok"

\* if not self.load_data(): return False
LoadData ==
    /\ pc = "start"
    /\ IF load_data(file)
       THEN /\ df' = read_csv(file)
            /\ loaded' = df'
            /\ columns' = file.cols
            /\ pc' = "columns"
            /\ UNCHANGED returned
       ELSE /\ returned' = "False"
            /\ pc' = "done"
            /\ UNCHANGED <<df, loaded, columns>>
    /\ UNCHANGED <<issues, ran, all_passed, output_file, removed, first_clean,
                   file, response>>
    /\ UNCHANGED aggVars

\* one iteration of the loop over steps: result = step_func(); an exception
\* of the step leaves run_full_validation
Step(name, res, next) ==
    /\ pc = name
    /\ ran' = Append(ran, name)
    /\ issues' = issues \o res.issues
    /\ IF res.raised
       THEN pc' = "raised" /\ UNCHANGED all_passed
       ELSE pc' = next /\ all_passed' = (all_passed /\ res.ok)
    /\ UNCHANGED <<columns, loaded, output_file, removed, first_clean, file,
                   returned, response>>
    /\ UNCHANGED aggVars

ValidateColumns ==
    Step("columns", validate_columns(columns), "dates") /\ UNCHANGED df

ValidateDates ==
    /\ Step("dates", validate_dates(df, columns), "numeric")
    /\ df' = validate_dates(df, columns).df

ValidateNumericColumns ==
    Step("numeric", validate_numeric_columns(df, columns), "categorical")
    /\ UNCHANGED df

ValidateCategoricalColumns ==
    Step("categorical", validate_categorical_columns(df, columns), "quality")
    /\ UNCHANGED df

CheckDataQuality ==
    Step("quality", check_data_quality(df, columns), "summary")
    /\ UNCHANGED df

GenerateSummaryStats ==
    Step("summary", generate_summary_stats(df, columns), "report")
    /\ UNCHANGED df

\* the final report, the prompt "Would you like to clean the data
\* automatically? (y/n)" when issues were recorded, clean_data on the answer
\* y, and return all_passed
Report ==
    /\ pc = "report"
    /\ pc' = "done"
    /\ returned' = Bool(all_passed)
    /\ IF issues = <<>>
       THEN UNCHANGED <<response, df, output_file, removed, first_clean>>
       ELSE \E answer \in Answers :
               /\ response' = answer
               /\ IF lower(answer) = "y"
                  THEN /\ removed' = Len(df) - Len(drop_duplicates(df))
                       /\ df' = clean_data(df)
                       /\ output_file' = to_csv(df')
                       /\ first_clean' = df'
                  ELSE UNCHANGED <<df, output_file, removed, first_clean>>
    /\ UNCHANGED <<columns, issues, ran, all_passed, loaded, file>>
    /\ UNCHANGED aggVars

InitValidate ==
    /\ file \in Files
    /\ df = <<>>
    /\ loaded = <<>>
    /\ columns = {}
    /\ issues = <<>>
    /\ pc = "start"
    /\ ran = <<>>
    /\ all_passed = TRUE
    /\ output_file = NoFile
    /\ removed = 0
    /\ first_clean = <<>>
    /\ returned = "none"
    /\ response = "none"
    /\ AggIdle

NextValidate ==
    \/ LoadData
    \/ ValidateColumns
    \/ ValidateDates
    \/ ValidateNumericColumns
    \/ ValidateCategoricalColumns
    \/ CheckDataQuality
    \/ GenerateSummaryStats
    \/ Report

SpecValidate == InitValidate /\ [][NextValidate]_vars

-----------------------------------------------------------------------------
(* C8: when validate_columns finds a required column missing it records a  *)
(* fatal issue and validation halts: no later step of that                 *)
(* run_full_validation call runs.                                          *)
MissingColumnsFound ==
    /\ "columns" \in { ran[i] : i \in 1..Len(ran) }
    /\ ~(required_columns \subseteq columns)

MissingColumnsHalt ==
    MissingColumnsFound =>
        /\ ran = <<"columns">>
        /\ \E i \in 1..Len(issues) : issues[i].kind = "Missing columns"

(* C9: once the file has loaded run_full_validation never raises for a     *)
(* data-content problem (text in a numeric column, unparseable dates,      *)
(* nulls, out-of-range values): every run on a table that has all the      *)
(* required columns returns normally.                                      *)
HasIssue(kind, col) ==
    \E i \in 1..Len(issues) : issues[i].kind = kind /\ issues[i].col = col

DefectsRecorded ==
    /\ (\E i \in 1..Len(loaded) : loaded[i].date.v = "bad")
          => HasIssue("Date parsing error", "date")
    /\ (\E i \in 1..Len(loaded) :
            \/ Less(loaded[i].bounce_rate, Num(0))
            \/ Greater(loaded[i].bounce_rate, Num(1)))
          => HasIssue("invalid bounce_rate values", "bounce_rate")
    /\ \A c \in NumericSet :
          /\ (\E i \in 1..Len(loaded) : IsNaN(loaded[i][c]))
                => HasIssue("missing values", c)
          /\ (\E i \in 1..Len(loaded) : IsStr(loaded[i][c]))
                => HasIssue("not numeric", c)

NoRaiseOnContent ==
    (file.status = "ok" /\ required_columns \subseteq file.cols) =>
        /\ pc # "raised"
        /\ pc = "done" => DefectsRecorded

(* C10: the validation steps never mutate the table: after any sequence of *)
(* steps every cell of self.df, the date column included, has the value it *)
(* had right after load_data.                                              *)
ValidationKeepsTable ==
    pc \in {"columns", "dates", "numeric", "categorical", "quality",
            "summary", "report", "raised"} => df = loaded

(* C11: run_full_validation on a file that loads returns True if and only  *)
(* if no warning and no fatal issue was recorded during the run, that is   *)
(* the issue list is empty at the end.                                     *)
ReturnsIsClean ==
    (pc = "done" /\ file.status = "ok") =>
        (returned = "True" <=> issues = <<>>)

(* C12: if load_data fails (file missing, unreadable or empty)             *)
(* run_full_validation aborts at once: it returns False, no validation     *)
(* step runs, the issue list stays empty, the cleaning prompt is not       *)
(* offered and clean_data is not invoked.                                  *)
LoadFailureAborts ==
    file.status # "ok" =>
        /\ pc \in {"start", "done"}
        /\ pc = "done" => returned = "False"
        /\ ran = <<>>
        /\ issues = <<>>
        /\ response = "none"
        /\ output_file = NoFile
        /\ df = <<>>
        /\ first_clean = <<>>

LoadFailureWitness ==
    /\ file.status \in {"missing", "empty"}
    /\ pc = "done"
    /\ returned = "False"

AllSteps ==
    <<"columns", "dates", "numeric", "categorical", "quality", "summary">>

PromptOffered == response # "none"

PromptAtEnd ==
    /\ PromptOffered => (pc = "done" /\ ran = AllSteps /\ issues # <<>>)
    /\ (pc = "done" /\ file.status = "ok") => (PromptOffered <=> issues # <<>>)
    /\ output_file.written <=> response \in {"y", "Y"}
    /\ first_clean # <<>> => response \in {"y", "Y"}

ReportStep ==
    (pc = "report" /\ pc' = "done") =>
        IF response' \in {"y", "Y"}
        THEN /\ df' = clean_data(df)
             /\ output_file' = to_csv(df')
        ELSE /\ df' = df
             /\ output_file' = output_file
             /\ output_file' = NoFile

CleanOnlyOnYes == []PromptAtEnd /\ [][ReportStep]_vars

CleanOnYesWitness ==
    /\ pc = "done"
    /\ response = "Y"
    /\ output_file.written
    /\ Len(df) < Len(loaded)
    /\ Len(df) > 0

(* C15: check_data_quality records one warning carrying the row count for  *)
(* each of the three conditions whose count is positive (rows with         *)
(* sessions < users, rows with conversions > sessions, rows with           *)
(* sessions = 0) and none for a condition whose count is 0; a table whose  *)
(* only defect is one record with sessions = 100 and conversions = 120     *)
(* yields exactly one warning, with count 1, before any cleaning, and      *)
(* cleaning sets that record's conversions to 100.                         *)
IssuesOf(kind) == SelectSeq(issues, LAMBDA x : x.kind = kind)

NumericCounts ==
    \A i \in 1..Len(loaded) :
        \A c \in {"sessions", "users", "conversions"} : ~IsStr(loaded[i][c])

ExpectedWarning(kind, col, rowSet) ==
    IF Cardinality(rowSet) > 0
    THEN IssuesOf(kind) = <<Issue(kind, col, Cardinality(rowSet))>>
    ELSE IssuesOf(kind) = <<>>

QualityWarnings ==
    (pc \in {"summary", "report", "done"} /\ file.status = "ok"
        /\ NumericCounts) =>
        /\ ExpectedWarning("sessions < users", "sessions",
              { i \in 1..Len(loaded) :
                  Less(loaded[i].sessions, loaded[i].users) })
        /\ ExpectedWarning("conversions > sessions", "conversions",
              { i \in 1..Len(loaded) :
                  Greater(loaded[i].conversions, loaded[i].sessions) })
        /\ ExpectedWarning("zero sessions", "sessions",
              { i \in 1..Len(loaded) : loaded[i].sessions = Num(0) })
        /\ (file.rows = <<OverCapRow>>) =>
              /\ issues = <<Issue("conversions > sessions", "conversions", 1)>>
              /\ output_file.written =>
                    (Len(df) = 1 /\ df[1].conversions = Num(100))

QualityWarningsWitness ==
    /\ pc = "done"
    /\ file.rows = <<OverCapRow>>
    /\ loaded[1].conversions = Num(120)
    /\ issues = <<Issue("conversions > sessions", "conversions", 1)>>
    /\ response = "y"
    /\ df[1].conversions = Num(100)

(* C16: warnings never interrupt control flow: when the load succeeds and  *)
(* all required columns are present each of the six steps runs exactly     *)
(* once, in the order column, date, numeric, categorical, quality,         *)
(* summary; the issue list only grows (entries are appended, never removed *)
(* or reordered) and cleaning does not clear it.                           *)
IsPrefix(s, t) == Len(s) <= Len(t) /\ \A i \in 1..Len(s) : s[i] = t[i]

StepsInOrder ==
    (file.status = "ok" /\ required_columns \subseteq file.cols) =>
        /\ IsPrefix(ran, AllSteps)
        /\ pc \in {"report", "done", "raised"} => ran = AllSteps

IssuesOnlyGrow == IsPrefix(issues, issues')

AllStepsRunOnce == []StepsInOrder /\ [][IssuesOnlyGrow]_vars

(* C17: in validate_numeric_columns a non-numeric column among sessions,   *)
(* users, conversions, bounce_rate, avg_session_duration records exactly   *)
(* one fatal issue for that column and skips only that column's range and  *)
(* missing-value checks; every other column is still checked, and the step *)
(* returns False if and only if at least one of the five columns is        *)
(* non-numeric (range and missing-value warnings leave the result True).   *)
IssuesOn(col) == SelectSeq(issues, LAMBDA x : x.col = col /\ x.kind \in
    {"not numeric", "negative values", "invalid bounce_rate values",
     "missing values"})

NonNumeric(col) == \E i \in 1..Len(df) : IsStr(df[i][col])

RowsWhere(P(_)) == { i \in 1..Len(df) : P(df[i]) }

\* the issues a numeric column must have: its range warning, then its
\* missing-value warning, each with its count when the count is positive
ColumnWarnings(col) ==
    LET range == IF col = "bounce_rate"
                 THEN RowsWhere(LAMBDA r : Less(r[col], Num(0))
                                           \/ Greater(r[col], Num(1)))
                 ELSE RowsWhere(LAMBDA r : Less(r[col], Num(0)))
        missing == RowsWhere(LAMBDA r : IsNaN(r[col]))
        rangeKind == IF col = "bounce_rate" THEN "invalid bounce_rate values"
                     ELSE "negative values"
    IN  (IF range # {} THEN <<Issue(rangeKind, col, Cardinality(range))>>
         ELSE <<>>)
        \o (IF missing # {}
            THEN <<Issue("missing values", col, Cardinality(missing))>>
            ELSE <<>>)

NonNumericColumnsOnlySkipped ==
    (pc = "categorical" /\ required_columns \subseteq columns) =>
        /\ \A col \in NumericSet :
              IssuesOn(col) = IF NonNumeric(col)
                              THEN <<Issue("not numeric", col, 0)>>
                              ELSE ColumnWarnings(col)
        /\ ~HasIssue("Date parsing error", "date") =>
              (all_passed <=> \A col \in NumericSet : ~NonNumeric(col))

\* a text column is reported and a later column still gets its warning
NonNumericWitness ==
    /\ pc = "categorical"
    /\ NonNumeric("sessions")
    /\ IssuesOn("sessions") = <<Issue("not numeric", "sessions", 0)>>
    /\ IssuesOn("bounce_rate") # <<>>
    /\ ~all_passed

(* C18: the duplicate removal of clean_data keeps exactly one row of each  *)
(* group of exactly-equal rows, the first, in the original order: for      *)
(* groups of multiplicities m1..mk the row count drops by the sum of the   *)
(* (mi - 1), and that number is the count reported as removed duplicates.  *)
RowGroups(t) == { t[i] : i \in 1..Len(t) }

Multiplicity(t, r) == Cardinality({ i \in 1..Len(t) : t[i] = r })

RECURSIVE ExtraCopies(_, _)
ExtraCopies(t, groups) ==
    IF groups = {} THEN 0
    ELSE LET r == CHOOSE x \in groups : TRUE
         IN  (Multiplicity(t, r) - 1) + ExtraCopies(t, groups \ {r})

\* the positions of the rows that have no equal row before them
FirstPositions(t) ==
    { i \in 1..Len(t) : \A j \in 1..(i - 1) : t[j] # t[i] }

\* the k-th smallest of a set of positions
Nth(positions, k) ==
    CHOOSE i \in positions : Cardinality({ j \in positions : j <= i }) = k

DuplicatesDropped ==
    pc = "cleaned" =>
        LET kept == drop_duplicates(loaded)
            firsts == FirstPositions(loaded)
        IN  /\ Len(kept) = Cardinality(firsts)
            /\ \A k \in 1..Len(kept) : kept[k] = loaded[Nth(firsts, k)]
            /\ \A r \in RowGroups(loaded) : Multiplicity(kept, r) = 1
            /\ Len(loaded) - Len(kept) = ExtraCopies(loaded, RowGroups(loaded))
            /\ removed = ExtraCopies(loaded, RowGroups(loaded))

\* a row, another row, and the first row again: one duplicate removed
DuplicatesWitness ==
    /\ pc = "cleaned"
    /\ Len(loaded) = 3
    /\ loaded[1] = loaded[3]
    /\ loaded[1] # loaded[2]
    /\ removed = 1
    /\ Len(df) = 2

(* C19: for every row that survives clean_data each of sessions, users,    *)
(* conversions, bounce_rate, avg_session_duration that was null in the raw *)
(* row is 0 in the cleaned row (a null conversions becomes 0, not the      *)
(* row's sessions), and no cleaned row holds a null in these five fields.  *)
NullsBecomeZero ==
    pc = "cleaned" =>
        LET survivors == positive_sessions(drop_duplicates(loaded))
        IN  /\ Len(df) = Len(survivors)
            /\ \A i \in 1..Len(df) : \A c \in NumericSet :
                  /\ IsNaN(survivors[i][c]) => df[i][c] = Num(0)
                  /\ ~IsNaN(df[i][c])

(* C20: the table returned by clean_data holds no two exactly-equal rows,  *)
(* also when raw rows that differ only in an out-of-range bounce_rate or   *)
(* in conversions above the cap become equal by clamping and capping.      *)
CleanedRowsDistinct ==
    pc = "cleaned" =>
        \A i, j \in 1..Len(df) : i # j => df[i] # df[j]

(* C21: when one of the nine required columns is missing from a loaded     *)
(* table run_full_validation never reaches the final report or the         *)
(* cleaning prompt, so clean_data is never invoked on a table that failed  *)
(* the schema check: the missing-column issue is recorded and a later step *)
(* that reads the missing column (numeric validation for the five numeric  *)
(* columns, the categorical summary for page, device, country, the summary *)
(* statistics for date) ends the run with an uncaught error.               *)
MissingIn(file_cols) == required_columns \ file_cols

\* the step that reads a missing column first
RaisingStep(file_cols) ==
    IF MissingIn(file_cols) \cap NumericSet # {} THEN "numeric"
    ELSE IF MissingIn(file_cols) \cap {"page", "device", "country"} # {}
    THEN "categorical"
    ELSE "summary"

MissingColumnNeverReported ==
    (file.status = "ok" /\ MissingIn(file.cols) # {}) =>
        /\ pc \notin {"report", "done"}
        /\ returned = "none"
        /\ response = "none"
        /\ ~output_file.written
        /\ first_clean = <<>>
        /\ IsPrefix(ran, AllSteps)
        /\ ran # <<>> => IssuesOf("Missing columns") =
              <<Issue("Missing columns", "-",
                      Cardinality(MissingIn(file.cols)))>>
        /\ pc = "raised" <=>
              (ran # <<>> /\ ran[Len(ran)] = RaisingStep(file.cols))

\* the date column is missing: the date step records its error, the run
\* goes on through the quality checks and ends in the summary statistics
MissingColumnWitness ==
    /\ file.status = "ok"
    /\ "date" \notin file.cols
    /\ pc = "raised"
    /\ ran = AllSteps
    /\ HasIssue("Missing columns", "-")
    /\ HasIssue("Date parsing error", "date")

====
